---------------------------- MODULE Spec2Model ----------------------------
(***************************************************************************)
(* The recording scheduler of dvr: the serve loop (main.py), the tuner     *)
(* handles (rec.py) and the event queries and updates of DvrDB (db.py).    *)
(*                                                                         *)
(* Names follow the source.  db.py names an event's flag to_be_recorded    *)
(* and its times start_ts / stop_ts; models.py and main.py name the flag   *)
(* scheduled.  The model uses scheduled, start_ts and stop_ts.             *)
(*                                                                         *)
(* Time is in whole seconds, as int(datetime.now().timestamp()).           *)
(***************************************************************************)
EXTENDS Integers, Sequences, FiniteSets, TLC

\* ------------------------------------------------------------- bounds
\* Number of EPG events in the database.
NumEvents == 2

\* Number of iterations of the serve loop that are explored.
MaxTicks == 25

\* ---------------------------------------------------- configuration
\* defaults.py: SHIFT_BEFORE, SHIFT_AFTER (minutes), DONGLE_NUM, and
\* TO_SHORT_LIMIT (minutes; the deployment modelled here sets it to 1).
SHIFT_BEFORE == 8

SHIFT_AFTER == 10

DONGLE_NUM == 1

TO_SHORT_LIMIT == 1

\* db.py: class attributes of DvrDB, in seconds.
REC_SHIFT_BEFORE == 60 * SHIFT_BEFORE

REC_SHIFT_AFTER == 60 * SHIFT_AFTER

\* main.py serve(): sleep(30) between two checks.
TICK_PERIOD == 30

\* get_event_to_start_recording: start_ts < now + 10.
START_AHEAD == 10

\* Event.recorder of an event that no tuner records.
NO_RECORDER == -1

Events == 1..NumEvents

\* recorders = [Recorder(i) for i in range(DONGLE_NUM)]
Adapters == 0..(DONGLE_NUM - 1)

\* FilmwebEntry.title of each event's film, as its rank in ascending
\* order.  The rows are not stored in title order, and with three events
\* or more two events show the same film.
title == [e \in Events |-> e % 2]

\* The rows an event of the EPG table is drawn from: <<start_ts, duration>>
\* in seconds.  The first is shorter than TO_SHORT_LIMIT; the third begins
\* when the stop of the first is due.
EpgRows == {<<20, 30>>, <<50, 60>>, <<650, 60>>}

VARIABLES
  now,          \* the wall clock, seconds
  start_ts,     \* Event.start_ts, per event
  stop_ts,      \* Event.stop_ts, per event
  scheduled,    \* Event.to_be_recorded / EPG.scheduled, per event
  recorder,     \* Event.recorder, per event: NO_RECORDER or an adapter
  proc,         \* Recorder.proc, per adapter: "none", "alive" or "dead"
  owner,        \* the event Recorder.proc was started for, per adapter; 0: none
  pc,           \* where serve() is: "check", "stop", "start", "sleep", "crashed"
  events2stop,  \* the rest of the stop list of the check in progress
  events2start, \* the rest of the start list of the check in progress
  ticks,        \* how many checks serve() has begun
  rec0,         \* recorder as it was when the check in progress began
  sched0,       \* scheduled as it was when the check in progress began
  free0,        \* the adapters that were not busy when the check began
  due0,         \* the events of the start list when the check began
  stopped,      \* events whose stop_rec() returned True in this check
  refused,      \* events whose stop_rec() returned False in this check
  started,      \* <<event, adapter>> of each start_rec() that returned True
  notified,     \* the events notify() was called for in this check, in order
  failed,       \* <<event, adapter>> of each start_rec() that raised
  exits,        \* a capture process exited on its own since the check began
  calls,        \* 1 in serve(); 2 once the check was called again directly
  after1,       \* <<recorder, scheduled>> when the first of two calls ended
  external,     \* a process exit or a user's choice since the first call began
  popen_failed  \* psutil.Popen raised in some start_rec() call

vars == <<now, start_ts, stop_ts, scheduled, recorder, proc, owner, pc,
          events2stop, events2start, ticks, rec0, sched0, free0, due0,
          stopped, refused, started, notified, failed, exits, calls,
          after1, external, popen_failed>>

epg == <<start_ts, stop_ts>>

\* What the check in progress has seen and done so far.
seen == <<rec0, sched0, free0, due0, stopped, refused, started, notified,
          failed>>

\* The bookkeeping of a check that is called a second time.
again == <<calls, after1, external, popen_failed>>

\* --------------------------------------------------------- helpers
RECURSIVE Orderings(_)
\* Every order in which a query without ORDER BY may return the rows S.
Orderings(S) ==
  IF S = {} THEN {<<>>}
  ELSE UNION {{<<x>> \o s : s \in Orderings(S \ {x})} : x \in S}

Range(s) == {s[i] : i \in 1..Len(s)}

\* ------------------------------------------------------------ rec.py
\* busy as it would be if it never looked at the process: always False.
busy_never(a) == FALSE

\* Recorder.busy: self.proc.is_running() if self.proc else False
busy(a) == proc[a] = "alive"

\* stop_rec as it would be without the early return for a recorder that is
\* not busy: it returns not is_running(), True, for an idle one too.
stop_rec_idle(a) ==
  [result |-> TRUE,
   proc |-> IF busy(a) THEN [proc EXCEPT ![a] = "dead"] ELSE proc]

\* Recorder.stop_rec on adapter a: what it returns and what it leaves of the
\* processes.  Not busy: False, nothing done.  Busy: communicate(timeout=2),
\* and on TimeoutExpired kill, terminate and communicate, which returns
\* only when the process has ended; then not is_running(), True.
stop_rec(a) ==
  IF ~busy(a)
  THEN [result |-> FALSE, proc |-> proc]
  ELSE [result |-> TRUE, proc |-> [proc EXCEPT ![a] = "dead"]]

\* ----------------------------------------------------------- main.py
\* get_free_recorder as it would be without the busy test: the first
\* recorder of the list, busy or not.
get_free_recorder_any ==
  {a \in Adapters : \A b \in Adapters : a <= b}

\* get_free_recorder as it would be if it kept the busy values of the
\* beginning of the check instead of asking each recorder again.
get_free_recorder_stale ==
  {a \in free0 : \A b \in free0 : a <= b}

\* get_free_recorder(): the first recorder of the list that is not busy,
\* as a set: empty when the function returns None.
get_free_recorder ==
  {a \in Adapters : ~busy(a) /\ \A b \in Adapters : b < a => busy(b)}

\* ------------------------------------------------------------- db.py
\* get_event_to_start_recording as it would be without the lower limit on
\* start_ts: every overdue event is due.
get_event_to_start_recording_overdue(t) ==
  {e \in Events : /\ scheduled[e] = TRUE
                  /\ recorder[e] = NO_RECORDER
                  /\ start_ts[e] < t + START_AHEAD}

\* get_event_to_start_recording as it would be if it took SHIFT_BEFORE for
\* seconds: the window is then shorter than the time between two checks.
get_event_to_start_recording_minutes(t) ==
  {e \in Events : /\ scheduled[e] = TRUE
                  /\ recorder[e] = NO_RECORDER
                  /\ start_ts[e] >= t - SHIFT_BEFORE
                  /\ start_ts[e] < t + START_AHEAD}

\* get_event_to_start_recording as it would be with the two comparisons of
\* start_ts exchanged in strictness: > below, <= above.
get_event_to_start_recording_strict(t) ==
  {e \in Events : /\ scheduled[e] = TRUE
                  /\ recorder[e] = NO_RECORDER
                  /\ start_ts[e] > t - REC_SHIFT_BEFORE
                  /\ start_ts[e] <= t + START_AHEAD}

\* DvrDB.get_event_to_start_recording at time t.
get_event_to_start_recording(t) ==
  {e \in Events : /\ scheduled[e] = TRUE
                  /\ recorder[e] = NO_RECORDER
                  /\ start_ts[e] >= t - REC_SHIFT_BEFORE
                  /\ start_ts[e] < t + START_AHEAD}

\* get_event_to_stop_recording as it would be with a trigger window like
\* the start query's: due only in the TICK_PERIOD after stop_ts + shift.
get_event_to_stop_recording_window(t) ==
  {e \in Events : /\ scheduled[e] = TRUE
                  /\ recorder[e] >= 0
                  /\ stop_ts[e] <= t - REC_SHIFT_AFTER
                  /\ stop_ts[e] > t - REC_SHIFT_AFTER - TICK_PERIOD}

\* get_event_to_stop_recording as it would be without the to_be_recorded
\* condition.
get_event_to_stop_recording_any(t) ==
  {e \in Events : /\ recorder[e] >= 0
                  /\ stop_ts[e] <= t - REC_SHIFT_AFTER}

\* get_event_to_stop_recording as it would be with < for <=.
get_event_to_stop_recording_strict(t) ==
  {e \in Events : /\ scheduled[e] = TRUE
                  /\ recorder[e] >= 0
                  /\ stop_ts[e] < t - REC_SHIFT_AFTER}

\* DvrDB.get_event_to_stop_recording at time t.
get_event_to_stop_recording(t) ==
  {e \in Events : /\ scheduled[e] = TRUE
                  /\ recorder[e] >= 0
                  /\ stop_ts[e] <= t - REC_SHIFT_AFTER}

\* DvrDB.get_events_for_schedule at time t (no channel filter).
get_events_for_schedule(t) ==
  {e \in Events : scheduled[e] = FALSE /\ start_ts[e] > t}

\* DvrDB.get_scheduled at time t (just_today = False).
get_scheduled(t) ==
  {e \in Events : scheduled[e] = TRUE /\ start_ts[e] > t - REC_SHIFT_BEFORE}

\* What a caller passes as the first argument of marked_as_being_recorded:
\* the Event object (main.py line 116) or its integer id (main.py line 97).
EventObject(e) == [kind |-> "event", id |-> e]

EventId(e) == [kind |-> "id", id |-> e]

\* The flush of session.commit() writes the attributes whose value differs
\* from the one the session loaded, and no other.  The session loaded the
\* event when the check ran its queries: sched0 is the loaded to_be_recorded.
Flushed(id, value) ==
  IF sched0[id] = value THEN scheduled ELSE [scheduled EXCEPT ![id] = value]

\* marked_as_being_recorded as it would be if it stored the parameter's
\* default, -1, instead of rec_number.
marked_as_being_recorded_default(arg, rec_number) ==
  IF arg.kind = "event"
  THEN [raised |-> FALSE,
        recorder |-> [recorder EXCEPT ![arg.id] = NO_RECORDER],
        scheduled |-> Flushed(arg.id, TRUE)]
  ELSE [raised |-> TRUE, recorder |-> recorder, scheduled |-> scheduled]

\* marked_as_being_recorded as it would be with to_be_recorded set to
\* rec_number is None, the not left out: the event is unscheduled.
marked_as_being_recorded_not(arg, rec_number) ==
  IF arg.kind = "event"
  THEN [raised |-> FALSE,
        recorder |-> [recorder EXCEPT ![arg.id] = rec_number],
        scheduled |-> Flushed(arg.id, FALSE)]
  ELSE [raised |-> TRUE, recorder |-> recorder, scheduled |-> scheduled]

\* DvrDB.marked_as_being_recorded(event, rec_number).  The body assigns
\* event.recorder and event.to_be_recorded: on an int that raises
\* AttributeError before anything is committed.  rec_number is never None
\* in this program, so to_be_recorded is assigned True.
marked_as_being_recorded(arg, rec_number) ==
  IF arg.kind = "event"
  THEN [raised |-> FALSE,
        recorder |-> [recorder EXCEPT ![arg.id] = rec_number],
        scheduled |-> Flushed(arg.id, TRUE)]
  ELSE [raised |-> TRUE, recorder |-> recorder, scheduled |-> scheduled]

\* -------------------------------------------------------------- Init
Init ==
  /\ now = 0
  /\ \E row \in [Events -> EpgRows] :
       /\ start_ts = [e \in Events |-> row[e][1]]
       /\ stop_ts = [e \in Events |-> row[e][1] + row[e][2]]
  /\ scheduled \in [Events -> BOOLEAN]
  /\ recorder = [e \in Events |-> NO_RECORDER]
  /\ proc = [a \in Adapters |-> "none"]
  /\ owner = [a \in Adapters |-> 0]
  /\ pc = "check"
  /\ events2stop = <<>>
  /\ events2start = <<>>
  /\ ticks = 0
  /\ rec0 = recorder
  /\ sched0 = scheduled
  /\ free0 = Adapters
  /\ due0 = {}
  /\ stopped = {}
  /\ refused = {}
  /\ started = {}
  /\ notified = <<>>
  /\ failed = {}
  /\ exits = FALSE
  /\ calls = 1
  /\ after1 = <<recorder, scheduled>>
  /\ external = FALSE
  /\ popen_failed = FALSE

\* ------------------------------------------------------------ serve
\* check_plan_and_start_stop_recording_if_needed, lines 84-92: both
\* queries, and the return when both lists are empty.
TickBegin ==
  /\ pc = "check"
  /\ \E s2start \in Orderings(get_event_to_start_recording(now)),
        s2stop \in Orderings(get_event_to_stop_recording(now)) :
       /\ events2start' = s2start
       /\ events2stop' = s2stop
       /\ pc' = IF s2stop # <<>> THEN "stop"
                ELSE IF s2start # <<>> THEN "start"
                ELSE "sleep"
       /\ due0' = Range(s2start)
  /\ ticks' = IF ticks <= MaxTicks THEN ticks + 1 ELSE ticks
  /\ rec0' = recorder
  /\ sched0' = scheduled
  /\ free0' = {a \in Adapters : ~busy(a)}
  /\ stopped' = {}
  /\ refused' = {}
  /\ started' = {}
  /\ notified' = <<>>
  /\ failed' = {}
  /\ exits' = FALSE
  /\ UNCHANGED <<now, epg, scheduled, recorder, proc, owner, again>>

\* Where the check goes after the stop loop has handled its last event.
AfterStopLoop(rest) ==
  IF rest # <<>> THEN "stop"
  ELSE IF events2start # <<>> THEN "start"
  ELSE "sleep"

\* One iteration of the stop loop, lines 94-99, with Recorder.stop_rec.
StopStep ==
  /\ pc = "stop"
  /\ events2stop # <<>>
  /\ LET e == Head(events2stop)
         a == recorder[e]
         rest == Tail(events2stop)
         sr == stop_rec(a)
     IN IF ~sr.result
        THEN \* stop_rec returns False: the event is left as it is
             /\ proc' = sr.proc
             /\ refused' = refused \cup {e}
             /\ events2stop' = rest
             /\ pc' = AfterStopLoop(rest)
             /\ UNCHANGED <<recorder, scheduled, stopped, notified,
                            events2start>>
        ELSE \* stop_rec returns True
             LET r == marked_as_being_recorded(EventId(e), NO_RECORDER)
             IN /\ proc' = sr.proc
                /\ stopped' = stopped \cup {e}
                /\ refused' = refused
                /\ recorder' = r.recorder
                /\ scheduled' = r.scheduled
                /\ IF r.raised
                   THEN /\ pc' = "crashed"
                        /\ UNCHANGED <<events2stop, events2start, notified>>
                   ELSE \* marked_as_recorded (sets the film's recorded
                        \* flag, no event field), then notify(event),
                        \* which returns or raises
                        /\ notified' = Append(notified, e)
                        /\ \E sent \in BOOLEAN :
                             IF sent
                             THEN /\ events2stop' = rest
                                  /\ pc' = AfterStopLoop(rest)
                             ELSE /\ events2stop' = events2stop
                                  /\ pc' = "crashed"
                        /\ UNCHANGED events2start
  /\ UNCHANGED <<now, epg, owner, ticks, rec0, sched0, free0, due0, started,
                 failed, exits, again>>

\* for event in events2start: the loop takes the events in list order.
NextEvent_last(list) == list[Len(list)]

NextEvent(list) == Head(list)

\* What psutil.Popen does in start_rec: it returns a handle of a running
\* process, or raises (the fork fails).
StartOutcomes == {"ok", "raise"}

\* One iteration of the start loop, lines 101-117, with Recorder.start_rec.
StartStep ==
  /\ pc = "start"
  /\ events2start # <<>>
  /\ LET e == NextEvent(events2start)
         rest == Tail(events2start)
     IN IF get_free_recorder = {}
        THEN \* "No recorders available": return
             /\ pc' = "sleep"
             /\ events2start' = <<>>
             /\ UNCHANGED <<proc, owner, recorder, scheduled, started, failed,
                            popen_failed>>
        ELSE \E a \in get_free_recorder, out \in StartOutcomes :
               IF out = "ok"
               THEN LET r == marked_as_being_recorded(EventObject(e), a)
                    IN /\ proc' = [proc EXCEPT ![a] = "alive"]
                       /\ owner' = [owner EXCEPT ![a] = e]
                       /\ recorder' = r.recorder
                       /\ scheduled' = r.scheduled
                       /\ started' = started \cup {<<e, a>>}
                       /\ events2start' = rest
                       /\ pc' = IF rest # <<>> THEN "start" ELSE "sleep"
                       /\ UNCHANGED <<failed, popen_failed>>
               ELSE \* the exception leaves start_rec before self.proc
                    \* is assigned, and leaves the check and serve()
                    /\ pc' = "crashed"
                    /\ failed' = failed \cup {<<e, a>>}
                    /\ popen_failed' = TRUE
                    /\ UNCHANGED <<proc, owner, recorder, scheduled, events2start,
                                   started>>
  /\ UNCHANGED <<now, epg, events2stop, ticks, rec0, sched0, free0, due0,
                 stopped, refused, notified, exits, calls, after1, external>>

\* serve() as it would be if a timer began a check every 30 seconds
\* whether or not the check before it has returned.
Sleep_timer ==
  /\ pc \in {"stop", "start", "sleep"}
  /\ calls = 1
  /\ ticks < MaxTicks
  /\ now' = now + TICK_PERIOD
  /\ pc' = "check"
  /\ UNCHANGED <<epg, scheduled, recorder, proc, owner, events2stop, events2start,
                 ticks, seen, exits, again>>

\* serve(): sleep(30), then the next check.
Sleep ==
  /\ pc = "sleep"
  /\ calls = 1
  /\ ticks < MaxTicks
  /\ now' = now + TICK_PERIOD
  /\ pc' = "check"
  /\ UNCHANGED <<epg, scheduled, recorder, proc, owner, events2stop, events2start,
                 ticks, seen, exits, again>>

\* ------------------------------------------------------ environment
\* The capture process of adapter a exits on its own.
ProcExit(a) ==
  /\ proc[a] = "alive"
  /\ proc' = [proc EXCEPT ![a] = "dead"]
  /\ exits' = TRUE
  /\ external' = (calls = 2)
  /\ UNCHANGED <<now, epg, scheduled, recorder, owner, pc, events2stop,
                 events2start, ticks, seen, calls, after1, popen_failed>>

\* main.py schedule_for_recording with DvrDB.schedule_recording: the user
\* picks an event the dialog offers (not scheduled, in the future, not
\* shorter than TO_SHORT_LIMIT minutes).
Schedule(e) ==
  /\ e \in get_events_for_schedule(now)
  /\ stop_ts[e] - start_ts[e] >= TO_SHORT_LIMIT * 60
  /\ scheduled' = [scheduled EXCEPT ![e] = TRUE]
  /\ external' = (calls = 2)
  /\ UNCHANGED <<now, epg, recorder, proc, owner, pc, events2stop, events2start,
                 ticks, seen, exits, calls, after1, popen_failed>>

\* main.py unschedule_recording with DvrDB.unschedule_recording: the user
\* picks an event of get_scheduled().
Unschedule(e) ==
  /\ e \in get_scheduled(now)
  /\ scheduled' = [scheduled EXCEPT ![e] = FALSE]
  /\ external' = (calls = 2)
  /\ UNCHANGED <<now, epg, recorder, proc, owner, pc, events2stop, events2start,
                 ticks, seen, exits, calls, after1, popen_failed>>

Next ==
  \/ TickBegin
  \/ StopStep
  \/ StartStep
  \/ Sleep
  \/ \E a \in Adapters : ProcExit(a)
  \/ \E e \in Events : Schedule(e)
  \/ \E e \in Events : Unschedule(e)

Spec == Init /\ [][Next]_vars

\* check_plan_and_start_stop_recording_if_needed called once more, directly
\* and with the clock where it was, after a call that returned or raised.
CallAgain ==
  /\ pc \in {"sleep", "crashed"}
  /\ calls = 1
  /\ ticks >= 1
  /\ calls' = 2
  /\ after1' = <<recorder, scheduled>>
  /\ external' = exits
  /\ pc' = "check"
  /\ UNCHANGED <<now, epg, scheduled, recorder, proc, owner, events2stop,
                 events2start, ticks, seen, exits, popen_failed>>

NextTwice ==
  \/ Next
  \/ CallAgain

SpecTwice == Init /\ [][NextTwice]_vars

\* ------------------------------------------------- serve() for ever
\* The clock is past every limit of every event: past the start window and
\* the stop limit of each.  From then on each query returns the same rows
\* at every later time.
Late ==
  \A e \in Events : /\ start_ts[e] + REC_SHIFT_BEFORE < now
                    /\ stop_ts[e] + REC_SHIFT_AFTER <= now

\* serve(): sleep(30), then the next check, once the clock is Late.  The
\* queries no longer depend on the time, and the model leaves now as it is.
SleepLate ==
  /\ pc = "sleep"
  /\ calls = 1
  /\ ticks >= MaxTicks
  /\ Late
  /\ pc' = "check"
  /\ UNCHANGED <<now, epg, scheduled, recorder, proc, owner, events2stop,
                 events2start, ticks, seen, exits, again>>

NextFair ==
  \/ Next
  \/ SleepLate

\* serve() keeps running: a step of the loop that can be taken is taken.
SpecFair ==
  /\ Init
  /\ [][NextFair]_vars
  /\ WF_vars(TickBegin)
  /\ WF_vars(StopStep)
  /\ WF_vars(StartStep)
  /\ WF_vars(Sleep)
  /\ WF_vars(SleepLate)

\* ------------------------------------------------ the two due queries
\* The queries as functions of the table and the clock: the table holds any
\* rows, the clock is at any second around the limits of the rows, and the
\* check runs both queries once.
QueryNows == 999..1001

\* <<start_ts, stop_ts>> of the rows: start_ts around now - 480 and
\* now + 10, stop_ts around now - 600, and stop_ts after start_ts.
QueryRows ==
  {r \in {300, 519, 520, 521, 1009, 1010, 1011} \X {399, 400, 401, 1100} :
     r[2] > r[1]}

InitQuery ==
  /\ now \in QueryNows
  /\ \E row \in [Events -> QueryRows] :
       /\ start_ts = [e \in Events |-> row[e][1]]
       /\ stop_ts = [e \in Events |-> row[e][2]]
  /\ scheduled \in [Events -> BOOLEAN]
  /\ recorder \in [Events -> {NO_RECORDER} \cup Adapters]
  /\ proc = [a \in Adapters |-> "none"]
  /\ owner = [a \in Adapters |-> 0]
  /\ pc = "check"
  /\ events2stop = <<>>
  /\ events2start = <<>>
  /\ ticks = 0
  /\ rec0 = recorder
  /\ sched0 = scheduled
  /\ free0 = Adapters
  /\ due0 = {}
  /\ stopped = {}
  /\ refused = {}
  /\ started = {}
  /\ notified = <<>>
  /\ failed = {}
  /\ exits = FALSE
  /\ calls = 1
  /\ after1 = <<recorder, scheduled>>
  /\ external = FALSE
  /\ popen_failed = FALSE

NextQuery == TickBegin

SpecQuery == InitQuery /\ [][NextQuery]_vars


\* ============================================================ claims
\* A step of serve() itself (or of a direct call of the check), as opposed
\* to a step of a capture process or of the user.
TickStep == <<pc, events2stop, events2start, ticks>>' #
            <<pc, events2stop, events2start, ticks>>

\* The check in progress has come to its end: it returned or it raised.
TickOver == pc \in {"sleep", "crashed"} /\ ticks >= 1

\* How many times notify() was called for event e in this check.
Notifications(e) == Cardinality({i \in 1..Len(notified) : notified[i] = e})

\* The events that got a recorder in this check.
Assigned == {e \in Events : rec0[e] = NO_RECORDER /\ recorder[e] >= 0}

\* C1: no tuner index is held by two different events at once: any two
\* distinct events with recorder >= 0 have different recorders.
C1_OneEventPerTuner ==
  \A e1, e2 \in Events :
    (e1 # e2 /\ recorder[e1] >= 0 /\ recorder[e2] >= 0)
      => recorder[e1] # recorder[e2]

\* C2: the number of events with recorder >= 0 is at most the number of
\* tuners.
C2_AtMostDongleNumRecording ==
  Cardinality({e \in Events : recorder[e] >= 0}) <= DONGLE_NUM

\* C3: for every event, recorder >= 0 implies scheduled, under any
\* interleaving of the checks with the user's schedule and unschedule.
C3_RecordingImpliesScheduled ==
  \A e \in Events : recorder[e] >= 0 => scheduled[e] = TRUE

C5_SecondCallChangesNothing ==
  (calls = 2 /\ ~external /\ ~popen_failed)
    => <<recorder, scheduled>> = after1

\* C6: when stop_rec() returned True for a due event, then after the check
\* the event has recorder = -1, the tuner it was on is not busy (unless this
\* check gave it to another event), and notify() was called exactly once for
\* the event.
C6_StopReleasesAndNotifies ==
  TickOver =>
    \A e \in stopped :
      /\ recorder[e] = NO_RECORDER
      /\ \/ ~busy(rec0[e])
         \/ \E s \in started : s[2] = rec0[e]
      /\ Notifications(e) = 1

\* C7: when stop_rec() returned False for a due event, no step of the check
\* changes the event's recorder or scheduled, notify() is not called for it,
\* and the event is due to stop again when the next check begins (unless the
\* user unscheduled it meanwhile).
C7_RefusedStopIsRetried ==
  /\ [](\A e \in refused :
          /\ recorder[e] = rec0[e]
          /\ recorder[e] >= 0
          /\ Notifications(e) = 0
          /\ scheduled[e] = TRUE => e \in get_event_to_stop_recording(now))
  /\ [][TickStep =>
          \A e \in refused' :
            recorder'[e] = recorder[e] /\ scheduled'[e] = scheduled[e]]_vars

\* C7 witness: the next check is about to begin and an event whose stop was
\* refused in the last one is due to stop again.
C7_Witness ==
  /\ pc = "check"
  /\ \E e \in refused : e \in get_event_to_stop_recording(now)

\* C8: when no tuner is free for an event of the start list, the check ends
\* without raising and changes no recorder; the events of the start list
\* that were not started keep recorder = -1; and a check that returns, had
\* more due events than free tuners and saw no process exit gave a recorder
\* to exactly as many events as tuners were free.
C8_NoFreeTunerEndsTheCheck ==
  /\ [](\A e \in due0 :
          (\A s \in started : s[1] # e) => recorder[e] = NO_RECORDER)
  /\ []((/\ pc = "sleep"
         /\ ~exits
         /\ Cardinality(due0) > Cardinality(free0))
        => Cardinality(Assigned) = Cardinality(free0))
  /\ [][(TickStep /\ pc = "start" /\ get_free_recorder = {}) =>
          (pc' = "sleep" /\ recorder' = recorder)]_vars

\* C8 witness (scenario E): two events were due, one tuner was free, the
\* check has returned, one event has a recorder and the other has not.
C8_Witness ==
  /\ pc = "sleep"
  /\ ~exits
  /\ Cardinality(due0) = 2
  /\ Cardinality(free0) = 1
  /\ Cardinality(Assigned) = 1
  /\ \E e \in due0 : recorder[e] = NO_RECORDER

\* C9: when start_rec() returned True for a due event on the free tuner,
\* then after the check the event's recorder is that tuner's adapter index,
\* the tuner was free when the check began or was freed in it, and the tuner
\* is busy unless its process has exited since.
C9_StartAssignsTheTuner ==
  \A s \in started :
    /\ recorder[s[1]] = s[2]
    /\ s[2] \in Adapters
    /\ s[1] \in due0
    /\ ~exits => busy(s[2])

\* C9 witness (scenario A): one event was due, tuner 0 was idle, the check
\* has returned, the event has recorder 0 and tuner 0 is busy.
C9_Witness ==
  /\ pc = "sleep"
  /\ Cardinality(due0) = 1
  /\ 0 \in free0
  /\ \E e \in due0 : <<e, 0>> \in started /\ recorder[e] = 0
  /\ busy(0)

\* C10: a failure of notify() does not end the check: a check in which
\* stop_rec() returned True for an event goes on past that event, whether
\* the notification was sent or not, and the event keeps recorder = -1.
C10_NotifyFailureIsNotFatal ==
  \A e \in stopped :
    /\ pc # "crashed"
    /\ e \notin Range(events2stop) => recorder[e] = NO_RECORDER

\* C11: when start_rec() fails on the free tuner, the event keeps
\* recorder = -1, the tuner stays idle, and the check goes on to the next
\* event of the start list instead of ending there.
C11_StartFailureGoesOn ==
  \A f \in failed :
    /\ recorder[f[1]] = NO_RECORDER
    /\ ~busy(f[2])
    /\ pc # "crashed"

\* The events the check in progress has taken from its two lists so far, or
\* still has on them.
Handled ==
  due0 \cup stopped \cup refused \cup {s[1] : s \in started}
       \cup {f[1] : f \in failed}
       \cup Range(events2stop) \cup Range(events2start)

\* C12: an event with scheduled = false is in neither the start list nor the
\* stop list at any now, whatever its recorder, start_ts and stop_ts; so
\* every event a check starts or stops was scheduled when the check read
\* its lists.
C12_UnscheduledIsNeverDue ==
  /\ \A e \in Events :
       scheduled[e] = FALSE =>
         /\ e \notin get_event_to_start_recording(now)
         /\ e \notin get_event_to_stop_recording(now)
  /\ \A e \in Handled : sched0[e] = TRUE

\* C12 witness: a check has returned that began when an unscheduled event
\* still had a recorder and its stop time was long past, and the check left
\* the event alone.
C12_Witness ==
  /\ pc = "sleep"
  /\ \E e \in Events :
       /\ sched0[e] = FALSE
       /\ rec0[e] >= 0
       /\ stop_ts[e] <= now - REC_SHIFT_AFTER
       /\ e \notin Handled

\* The start window of event e is over at time t and no tuner records e.
Missed(e, t) == recorder[e] = NO_RECORDER /\ t > start_ts[e] + 60 * SHIFT_BEFORE

\* C13: once now > start_ts + 60 * SHIFT_BEFORE while the event has
\* recorder = -1, the event is not due to start, it stays so as the clock
\* goes on, and no step gives it a recorder.
C13_MissedWindowIsPermanent ==
  /\ [](\A e \in Events :
          Missed(e, now) =>
            /\ e \notin get_event_to_start_recording(now)
            /\ e \notin Range(events2start))
  /\ [][\A e \in Events :
          Missed(e, now) => (recorder'[e] = NO_RECORDER /\ now' >= now)]_vars

\* C13 witness: a check has returned while a scheduled event without a
\* recorder is past its start window: it was due in earlier checks and the
\* tuner was taken, and the later checks pass it over.
C13_Witness ==
  /\ pc = "sleep"
  /\ \E e \in Events :
       /\ sched0[e] = TRUE
       /\ scheduled[e] = TRUE
       /\ Missed(e, now)

\* Time t is inside the start window of event e.
InStartWindow(e, t) ==
  start_ts[e] >= t - 60 * SHIFT_BEFORE /\ start_ts[e] < t + START_AHEAD

\* The check in progress is the first one after start_ts of event e: the
\* check before it, TICK_PERIOD earlier, came before e's start window.
FirstCheckAfterStart(e) ==
  /\ ticks >= 2
  /\ start_ts[e] >= (now - TICK_PERIOD) + START_AHEAD
  /\ start_ts[e] < now

\* C14 as claimed: with SHIFT_BEFORE = 8 and a check every 30 seconds, a
\* scheduled event without a recorder is missed when one check falls just
\* before its start window and the next one after its start: that next
\* check, having returned, has not started the event.
C14_MissedBetweenTwoChecks ==
  \A e \in Events :
    (/\ pc = "sleep"
     /\ sched0[e] = TRUE
     /\ rec0[e] = NO_RECORDER
     /\ FirstCheckAfterStart(e))
      => recorder[e] = NO_RECORDER

\* C14 as amended: no event is missed between two checks.  The start window
\* is start_ts - 10 < now <= start_ts + 480, longer than TICK_PERIOD: a check
\* that falls before the window is followed by one that does not fall after
\* it; an event that is scheduled and without a recorder when a check in its
\* window begins is on the start list; and a check that returns leaves an
\* event of its start list without a recorder only when no tuner is free.
C14_NoEventMissedBetweenChecks ==
  /\ [][\A e \in Events :
          (now' # now /\ start_ts[e] >= now + START_AHEAD)
            => start_ts[e] >= now' - 60 * SHIFT_BEFORE]_vars
  /\ [](\A e \in Events :
          (/\ pc # "check"
           /\ sched0[e] = TRUE
           /\ rec0[e] = NO_RECORDER
           /\ InStartWindow(e, now))
            => e \in due0)
  /\ [](\A e \in due0 :
          (pc = "sleep" /\ ~exits /\ recorder[e] = NO_RECORDER)
            => \A a \in Adapters : busy(a))

\* C14 witness: the first check after an event's start_ts, the check before
\* it having come before the window, has started the event.
C14_Witness ==
  /\ pc = "sleep"
  /\ \E e \in due0 :
       /\ FirstCheckAfterStart(e)
       /\ rec0[e] = NO_RECORDER
       /\ \E a \in Adapters : <<e, a>> \in started /\ recorder[e] = a

\* C15: checks never overlap: serve() begins a check only after the check
\* before it has returned, so a check begins with nothing left on the lists
\* of an earlier one, and one check at most is in progress.
C15_ChecksNeverOverlap ==
  /\ [][(pc # "check" /\ pc' = "check") => pc = "sleep"]_vars
  /\ [][(pc = "check" /\ pc' # "check")
          => (events2stop = <<>> /\ events2start = <<>>)]_vars
  /\ [](pc \in {"check", "sleep"}
          => (events2stop = <<>> /\ events2start = <<>>))

\* C15 witness: a later check is working through its lists, an earlier
\* check having started a recording.
C15_Witness ==
  /\ ticks >= 2
  /\ pc \in {"stop", "start"}
  /\ \E e \in Events : rec0[e] >= 0

\* C16: the start list a check reads holds exactly the events with
\* scheduled = true, recorder = -1, start_ts >= now - 60 * SHIFT_BEFORE and
\* start_ts < now + 10, both limits included as stated.
C16_DueToStartExactly ==
  pc # "check" =>
    /\ Range(events2start) =
         {e \in Events : /\ scheduled[e] = TRUE
                         /\ recorder[e] = -1
                         /\ start_ts[e] >= now - 60 * SHIFT_BEFORE
                         /\ start_ts[e] < now + 10}
    /\ Len(events2start) = Cardinality(Range(events2start))

\* C16 witness: the check has read a table with a scheduled event at each
\* limit: start_ts = now - 480 is on the list, start_ts = now + 10 is not.
C16_Witness ==
  /\ pc # "check"
  /\ \E e1, e2 \in Events :
       /\ scheduled[e1] /\ recorder[e1] = -1 /\ start_ts[e1] = now - 480
       /\ scheduled[e2] /\ recorder[e2] = -1 /\ start_ts[e2] = now + 10
       /\ e1 \in Range(events2start)
       /\ e2 \notin Range(events2start)

\* C17: the stop list a check reads holds exactly the events with
\* scheduled = true, recorder >= 0 and stop_ts <= now - 60 * SHIFT_AFTER,
\* the limit included.
C17_DueToStopExactly ==
  pc # "check" =>
    /\ Range(events2stop) =
         {e \in Events : /\ scheduled[e] = TRUE
                         /\ recorder[e] >= 0
                         /\ stop_ts[e] <= now - 60 * SHIFT_AFTER}
    /\ Len(events2stop) = Cardinality(Range(events2stop))

\* C17 witness: the check has read a table with a recording event at the
\* limit and one a second inside it: stop_ts = now - 600 is on the list,
\* stop_ts = now - 599 is not.
C17_Witness ==
  /\ pc # "check"
  /\ \E e1, e2 \in Events :
       /\ scheduled[e1] /\ recorder[e1] >= 0 /\ stop_ts[e1] = now - 600
       /\ scheduled[e2] /\ recorder[e2] >= 0 /\ stop_ts[e2] = now - 599
       /\ e1 \in Range(events2stop)
       /\ e2 \notin Range(events2stop)

\* C18: provided the checks keep coming, every scheduled event that has a
\* recorder and whose stop_ts + 60 * SHIFT_AFTER has passed eventually has
\* recorder = -1, also when its capture process has exited on its own.
C18_DueStopIsEventuallyDone ==
  ([]<>(pc = "check")) =>
    \A e \in Events :
      (/\ scheduled[e] = TRUE
       /\ recorder[e] >= 0
       /\ stop_ts[e] + 60 * SHIFT_AFTER <= now)
        ~> (recorder[e] = NO_RECORDER)

\* Event e comes before event f by title ascending, then start_ts ascending.
Before(e, f) ==
  \/ title[e] < title[f]
  \/ title[e] = title[f] /\ start_ts[e] < start_ts[f]

\* The events of the start list that the check in progress has not started.
NotStarted == {e \in due0 : \A s \in started : s[1] # e}

\* C19 as claimed: the events that got a tuner in a check that has returned
\* are the first of its start list by title, then start_ts: no event that
\* was due and went without a tuner comes before one that got a tuner.
C19_StartedInTitleOrder ==
  pc = "sleep" =>
    \A s \in started : \A e \in NotStarted : ~Before(e, s[1])

\* C19 as amended: the events are taken in the order of the list the query
\* returned, whatever that order is: an event that gets a recorder is the
\* first of the remaining start list and is taken off it, and the list loses
\* events only from its front, or all that remain when no tuner is free.
C19_StartedInListOrder ==
  /\ [][\A e \in Events :
          (recorder[e] = NO_RECORDER /\ recorder'[e] >= 0)
            => /\ events2start # <<>>
               /\ e = Head(events2start)
               /\ events2start' = Tail(events2start)]_vars
  /\ [][(pc # "check" /\ events2start' # events2start)
          => \/ events2start' = Tail(events2start)
             \/ events2start' = <<>> /\ get_free_recorder = {}]_vars

\* C19 witness: two events were due, the first of the list has got the
\* tuner and the second is still on the list, although the second comes
\* before the first by title.
C19_Witness ==
  /\ pc = "start"
  /\ Cardinality(due0) = 2
  /\ Len(events2start) = 1
  /\ \E s \in started :
       /\ s[1] \in due0
       /\ recorder[s[1]] = s[2]
       /\ Before(Head(events2start), s[1])

\* C21: the check never stops the recording of an event before the
\* event's stop_ts + 60 * SHIFT_AFTER: whenever stop_rec() has ended the
\* capture process of a tuner, the event that process was recording is past
\* that time.
C21_NoPrematureCutoff ==
  \A e \in stopped :
    \A f \in Events :
      owner[rec0[e]] = f => stop_ts[f] + 60 * SHIFT_AFTER <= now

\* The adapters whose Recorder has no running process now.
FreeAdapters == {a \in Adapters : proc[a] # "alive"}

StopCall == pc = "stop" /\ TickStep

\* C23: stop_rec() on a tuner without a running process returns False and
\* changes nothing; on a tuner with a running process it returns True, the
\* process is not running afterwards and the tuner is not busy; no other
\* tuner is touched.  (It never returns False for a running process.)
C23_StopRec ==
  [][StopCall =>
       LET e == Head(events2stop)
           a == recorder[e]
       IN IF proc[a] # "alive"
          THEN /\ e \in refused'
               /\ e \notin stopped'
               /\ proc' = proc
          ELSE /\ e \in stopped'
               /\ e \notin refused'
               /\ proc'[a] # "alive"
               /\ \A b \in Adapters : b # a => proc'[b] = proc[b]]_vars

\* C23 witness: stop_rec() has returned True for an event whose own capture
\* process was running, and the tuner is not busy.
C23_Witness ==
  \E e \in stopped :
    /\ owner[rec0[e]] = e
    /\ proc[rec0[e]] = "dead"
    /\ ~busy(rec0[e])

\* A step of the start loop in which start_rec() is called on adapter a: it
\* returns a handle for the first event of the list, or it raises.
StartCall(a) ==
  /\ pc = "start"
  /\ \/ started' = started \cup {<<Head(events2start), a>>}
        /\ started' # started
     \/ failed' = failed \cup {<<Head(events2start), a>>}
        /\ failed' # failed

\* C24: start_rec() is only called on a tuner that is not busy, so the
\* handle of a running capture process is never replaced: a process that
\* runs before a step of the check and is not stopped by it is the same
\* process, of the same event, after it.
C24_StartOnlyOnIdleTuner ==
  /\ [][\A a \in Adapters : StartCall(a) => proc[a] # "alive"]_vars
  /\ [][\A a \in Adapters :
          (proc[a] = "alive" /\ proc'[a] = "alive") => owner'[a] = owner[a]]_vars

\* C24 witness: start_rec() has returned a handle on a tuner that an
\* earlier event still has as its recorder: that event's process had exited,
\* the tuner was idle, and the handle that was replaced was a dead one.
C24_Witness ==
  \E s \in started : \E f \in Events :
    /\ f # s[1]
    /\ recorder[f] = s[2]
    /\ owner[s[2]] = s[1]
    /\ busy(s[2])

\* C25: in a check the stop list is worked off before the start list, so
\* a tuner that a stop has released goes to an event due to start in the
\* same check: with one tuner, an event stopped on it and one other event
\* due to start, and no start_rec() failing, the check ends with the first
\* at recorder = -1 and the second on that tuner.
C25_ReleasedTunerIsReusedInTheCheck ==
  /\ pc = "start" => events2stop = <<>>
  /\ (TickOver /\ failed = {} /\ Cardinality(Adapters) = 1
               /\ Cardinality(due0) = 1)
       => \A e \in stopped : \A f \in due0 :
            /\ recorder[e] = NO_RECORDER
            /\ recorder[f] = rec0[e]

\* The events that were on the stop list of the check in progress.
DueToStop0 == stopped \cup refused \cup Range(events2stop)

\* C26: a step of the check changes no event's scheduled, start_ts or
\* stop_ts, and changes the recorder only of events of its start list or
\* its stop list.
C26_TickChangesOnlyDueRecorders ==
  [][TickStep =>
       /\ scheduled' = scheduled
       /\ start_ts' = start_ts
       /\ stop_ts' = stop_ts
       /\ \A e \in Events :
            recorder'[e] # recorder[e] => e \in due0 \cup DueToStop0]_vars

\* C26 witness: a check has returned that started one event and had nothing
\* to do with another: the first has its new recorder and the scheduled flag
\* it had, the other is as it was.
C26_Witness ==
  /\ pc = "sleep"
  /\ \E s \in started : \E f \in Events \ (due0 \cup DueToStop0) :
       /\ recorder[s[1]] = s[2]
       /\ rec0[s[1]] = NO_RECORDER
       /\ scheduled[s[1]] = sched0[s[1]]
       /\ recorder[f] = rec0[f]

\* Event e is due to start, and due to stop, at time t.
DueToStart(e, t) ==
  /\ scheduled[e] = TRUE
  /\ recorder[e] = -1
  /\ start_ts[e] >= t - 60 * SHIFT_BEFORE
  /\ start_ts[e] < t + 10

DueToStop(e, t) ==
  /\ scheduled[e] = TRUE
  /\ recorder[e] >= 0
  /\ stop_ts[e] <= t - 60 * SHIFT_AFTER

\* C27: a check that begins when no event is due to start and none is due
\* to stop returns at once: it changes no event, calls start_rec() and
\* stop_rec() on no tuner and does not call notify().
C27_NothingDueNothingDone ==
  [][(/\ pc = "check"
      /\ TickStep
      /\ \A e \in Events : ~DueToStart(e, now) /\ ~DueToStop(e, now))
       => /\ pc' = "sleep"
          /\ recorder' = recorder
          /\ scheduled' = scheduled
          /\ epg' = epg
          /\ proc' = proc
          /\ owner' = owner
          /\ started' = {} /\ failed' = {}
          /\ stopped' = {} /\ refused' = {}
          /\ notified' = <<>>]_vars

\* C27 witness: a check has returned that had nothing on either list while
\* a recording was under way, and the recording goes on.
C27_Witness ==
  /\ pc = "sleep"
  /\ ticks >= 1
  /\ due0 = {}
  /\ DueToStop0 = {}
  /\ ~exits
  /\ \E e \in Events :
       /\ recorder[e] >= 0
       /\ owner[recorder[e]] = e
       /\ busy(recorder[e])

=============================================================================
